---------------------------- MODULE Spec2Model ----------------------------
(***************************************************************************)
(* Model of the image pipeline of remove-background (App.tsx and its       *)
(* earlier revisions): upload -> (HEIC conversion) -> file read -> decode  *)
(* -> resize -> removeBackground -> canvas compositing -> published state. *)
(*                                                                         *)
(* JavaScript numbers are IEEE 754 binary64.  The resize and placement     *)
(* arithmetic of the source is therefore modelled with correctly rounded   *)
(* binary64 operations (round to nearest, ties to even) over arbitrary     *)
(* precision naturals, which are kept as little-endian limb sequences      *)
(* because the model checker's integers are 32 bits wide.                  *)
(***************************************************************************)
EXTENDS Integers, Sequences, FiniteSets, TLC

(***************************************************************************)
(* Arbitrary precision naturals: little-endian sequences of limbs in       *)
(* 0..LimbBase-1 without leading zero limbs; <<>> is zero.                 *)
(***************************************************************************)
LimbBits == 15
LimbBase == 2^LimbBits

Limb(a, i) == IF i <= Len(a) THEN a[i] ELSE 0

RECURSIVE BNorm(_)
BNorm(a) ==
  IF a = <<>> THEN <<>>
  ELSE IF a[Len(a)] = 0 THEN BNorm(SubSeq(a, 1, Len(a) - 1))
  ELSE a

RECURSIVE BFromInt(_)
BFromInt(n) ==
  IF n = 0 THEN <<>> ELSE <<n % LimbBase>> \o BFromInt(n \div LimbBase)

RECURSIVE BToIntFrom(_, _)
BToIntFrom(a, i) ==
  IF i > Len(a) THEN 0 ELSE a[i] + LimbBase * BToIntFrom(a, i + 1)

BToInt(a) == BToIntFrom(a, 1)

RECURSIVE BAddC(_, _, _, _)
BAddC(a, b, i, c) ==
  IF i > Len(a) /\ i > Len(b)
  THEN (IF c = 0 THEN <<>> ELSE <<c>>)
  ELSE LET s == Limb(a, i) + Limb(b, i) + c
       IN  <<s % LimbBase>> \o BAddC(a, b, i + 1, s \div LimbBase)

BAdd(a, b) == BAddC(a, b, 1, 0)

RECURSIVE BSubC(_, _, _, _)
BSubC(a, b, i, c) ==
  IF i > Len(a) THEN <<>>
  ELSE LET d == a[i] - Limb(b, i) - c
       IN  IF d < 0
           THEN <<d + LimbBase>> \o BSubC(a, b, i + 1, 1)
           ELSE <<d>> \o BSubC(a, b, i + 1, 0)

\* a - b for a >= b
BSub(a, b) == BNorm(BSubC(a, b, 1, 0))

RECURSIVE BCmpFrom(_, _, _)
BCmpFrom(a, b, i) ==
  IF i = 0 THEN 0
  ELSE IF a[i] > b[i] THEN 1
  ELSE IF a[i] < b[i] THEN -1
  ELSE BCmpFrom(a, b, i - 1)

\* -1, 0, 1 as a < b, a = b, a > b
BCmp(a, b) ==
  IF Len(a) > Len(b) THEN 1
  ELSE IF Len(a) < Len(b) THEN -1
  ELSE BCmpFrom(a, b, Len(a))

RECURSIVE BMulSmallC(_, _, _, _)
BMulSmallC(a, d, i, c) ==
  IF i > Len(a)
  THEN (IF c = 0 THEN <<>> ELSE <<c>>)
  ELSE LET p == a[i] * d + c
       IN  <<p % LimbBase>> \o BMulSmallC(a, d, i + 1, p \div LimbBase)

\* a * d for a limb d
BMulSmall(a, d) == IF d = 0 THEN <<>> ELSE BMulSmallC(a, d, 1, 0)

RECURSIVE BMulFrom(_, _, _)
BMulFrom(a, b, j) ==
  IF j > Len(b) THEN <<>>
  ELSE BAdd(BMulSmall(a, b[j]), <<0>> \o BMulFrom(a, b, j + 1))

BMul(a, b) == BNorm(BMulFrom(a, b, 1))

Zeros(q) == [i \in 1..q |-> 0]

\* a * 2^n
BShl(a, n) ==
  IF a = <<>> THEN <<>>
  ELSE Zeros(n \div LimbBits) \o BMulSmall(a, 2^(n % LimbBits))

RECURSIVE BDivSmallC(_, _, _, _)
BDivSmallC(a, d, i, r) ==
  IF i = 0 THEN <<>>
  ELSE LET n == r * LimbBase + a[i]
       IN  BDivSmallC(a, d, i - 1, n % d) \o <<n \div d>>

\* floor(a / 2^n)
BShr(a, n) ==
  LET q == n \div LimbBits
      t == IF q >= Len(a) THEN <<>> ELSE SubSeq(a, q + 1, Len(a))
  IN  BNorm(BDivSmallC(t, 2^(n % LimbBits), Len(t), 0))

RECURSIVE IntBitLen(_)
IntBitLen(n) == IF n = 0 THEN 0 ELSE 1 + IntBitLen(n \div 2)

BitLen(a) ==
  IF a = <<>> THEN 0 ELSE LimbBits * (Len(a) - 1) + IntBitLen(a[Len(a)])

Bit(a, i) == (Limb(a, i \div LimbBits + 1) \div 2^(i % LimbBits)) % 2

\* a mod 2^n
BLow(a, n) ==
  BNorm([j \in 1..(IF n \div LimbBits < Len(a) THEN n \div LimbBits + 1 ELSE Len(a)) |->
           IF j = n \div LimbBits + 1 THEN a[j] % 2^(n % LimbBits) ELSE a[j]])

\* one step of long division: q2, r2 are twice the quotient and twice the
\* remainder plus the next bit of the dividend
BDivStep(d, q2, r2) ==
  IF BCmp(r2, d) >= 0 THEN <<BAdd(q2, <<1>>), BSub(r2, d)>> ELSE <<q2, r2>>

RECURSIVE BDivModFrom(_, _, _, _)
\* long division of n by d from bit i of n downwards; qr: the quotient and the
\* remainder of the bits above i
BDivModFrom(n, d, i, qr) ==
  IF i < 0 THEN qr
  ELSE IF qr[2] = <<>> /\ BLow(n, i + 1) = <<>> THEN <<BShl(qr[1], i + 1), <<>>>>
  ELSE BDivModFrom(n, d, i - 1,
         BDivStep(d, BAdd(qr[1], qr[1]),
                  BAdd(BAdd(qr[2], qr[2]), IF Bit(n, i) = 1 THEN <<1>> ELSE <<>>)))

\* <<floor(n / d), n mod d>> for n >= d > 0
BDivMod(n, d) ==
  BDivModFrom(n, d, BitLen(n) - BitLen(d), <<<<>>, BShr(n, BitLen(n) - BitLen(d) + 1)>>)

RECURSIVE TrailingZeros(_)
TrailingZeros(a) ==
  IF a = <<>> THEN 0
  ELSE IF a[1] = 0 THEN LimbBits + TrailingZeros(Tail(a))
  ELSE IF a[1] % 2 = 0 THEN 1 + TrailingZeros(<<a[1] \div 2>>)
  ELSE 0

(***************************************************************************)
(* binary64 values: sign * man * 2^exp with man an odd natural of at most  *)
(* Precision bits (or zero).  Every finite double in the range the         *)
(* pipeline reaches has exactly one such representation.  A division by    *)
(* zero yields a value that is not finite: Infinity and NaN are the two    *)
(* values with no mantissa and a nonzero tag in exp.  The sign of zero is  *)
(* not kept: no operation of the pipeline tells -0 from 0.                 *)
(***************************************************************************)
Precision == 53

FZero == [sign |-> 1, man |-> <<>>, exp |-> 0]

FInfinity(sign) == [sign |-> sign, man |-> <<>>, exp |-> 1]

FNaN == [sign |-> 1, man |-> <<>>, exp |-> 2]

IsZero(x) == x.man = <<>> /\ x.exp = 0
IsInfinite(x) == x.man = <<>> /\ x.exp = 1
IsNaN(x) == x.man = <<>> /\ x.exp = 2

\* neither zero, nor Infinity, nor NaN
IsRegular(x) == x.man # <<>>

FStrip(sign, m, e, z) == [sign |-> sign, man |-> BShr(m, z), exp |-> e + z]

\* the canonical representation of sign * m * 2^e
FCanon(sign, m, e) ==
  IF m = <<>> THEN FZero ELSE FStrip(sign, m, e, TrailingZeros(m))

\* round to nearest, ties to even: c compares the dropped part with one half
RoundsUp(c, sticky, oddBit) == c > 0 \/ (c = 0 /\ (sticky \/ oddBit = 1))

FRoundUp(sign, q, e, up) == FCanon(sign, IF up THEN BAdd(q, <<1>>) ELSE q, e)

\* as FRound, dropping the n low bits of m
FRoundCut(sign, m, e, sticky, n) ==
  FRoundUp(sign, BShr(m, n), e + n,
           RoundsUp(BCmp(BShl(BLow(m, n), 1), BShl(<<1>>, n)), sticky, Bit(m, n)))

\* sign * (m + f) * 2^e rounded to nearest, ties to even, where 0 < f < 1 if
\* sticky and f = 0 otherwise
FRound(sign, m, e, sticky) ==
  IF BitLen(m) <= Precision
  THEN FCanon(sign, m, e)
  ELSE FRoundCut(sign, m, e, sticky, BitLen(m) - Precision)

FromInt(n) == FCanon(IF n < 0 THEN -1 ELSE 1, BFromInt(IF n < 0 THEN -n ELSE n), 0)

\* x * y when one of them is zero, Infinity or NaN
FMulSpecial(x, y) ==
  IF IsNaN(x) \/ IsNaN(y) THEN FNaN
  ELSE IF IsInfinite(x) \/ IsInfinite(y)
  THEN (IF IsZero(x) \/ IsZero(y) THEN FNaN ELSE FInfinity(x.sign * y.sign))
  ELSE FZero

FMul(x, y) ==
  IF IsRegular(x) /\ IsRegular(y)
  THEN FRound(x.sign * y.sign, BMul(x.man, y.man), x.exp + y.exp, FALSE)
  ELSE FMulSpecial(x, y)

FDivRound(sign, qr, e) == FRound(sign, qr[1], e, qr[2] # <<>>)

FDivShift(x, y, k) ==
  FDivRound(x.sign * y.sign, BDivMod(BShl(x.man, k), y.man), x.exp - y.exp - k)

\* x / y when one of them is zero, Infinity or NaN
FDivSpecial(x, y) ==
  IF IsNaN(x) \/ IsNaN(y) THEN FNaN
  ELSE IF IsInfinite(x)
  THEN (IF IsInfinite(y) THEN FNaN ELSE FInfinity(x.sign * y.sign))
  ELSE IF IsInfinite(y) THEN FZero
  ELSE IF IsZero(y)
  THEN (IF IsZero(x) THEN FNaN ELSE FInfinity(x.sign * y.sign))
  ELSE FZero

FDiv(x, y) ==
  IF IsRegular(x) /\ IsRegular(y)
  THEN FDivShift(x, y, Precision + 3 + BitLen(y.man) - BitLen(x.man))
  ELSE FDivSpecial(x, y)

FNeg(x) == IF IsZero(x) \/ IsNaN(x) THEN x ELSE [x EXCEPT !.sign = -x.sign]

\* sx * mx * 2^e + sy * my * 2^e
FAddAligned(sx, mx, sy, my, e) ==
  IF sx = sy THEN FRound(sx, BAdd(mx, my), e, FALSE)
  ELSE IF BCmp(mx, my) >= 0 THEN FRound(sx, BSub(mx, my), e, FALSE)
  ELSE FRound(sy, BSub(my, mx), e, FALSE)

FAddAt(x, y, e) ==
  FAddAligned(x.sign, BShl(x.man, x.exp - e), y.sign, BShl(y.man, y.exp - e), e)

\* x + y when one of them is zero, Infinity or NaN
FAddSpecial(x, y) ==
  IF IsNaN(x) \/ IsNaN(y) THEN FNaN
  ELSE IF IsInfinite(x)
  THEN (IF IsInfinite(y) /\ x.sign # y.sign THEN FNaN ELSE x)
  ELSE IF IsInfinite(y) THEN y
  ELSE IF IsZero(x) THEN y
  ELSE x

FAdd(x, y) ==
  IF IsRegular(x) /\ IsRegular(y)
  THEN FAddAt(x, y, IF x.exp < y.exp THEN x.exp ELSE y.exp)
  ELSE FAddSpecial(x, y)

FSub(x, y) == FAdd(x, FNeg(y))

FSign(x) == IF IsZero(x) THEN 0 ELSE x.sign

\* -1, 0, 1 as x < y, x = y, x > y, for x and y that are not NaN
FCmp(x, y) == IF x = y THEN 0 ELSE FSign(FSub(x, y))

\* every comparison with NaN is false
Ordered(x, y) == ~IsNaN(x) /\ ~IsNaN(y)

FLt(x, y) == Ordered(x, y) /\ FCmp(x, y) < 0
FLe(x, y) == Ordered(x, y) /\ FCmp(x, y) <= 0
FGt(x, y) == Ordered(x, y) /\ FCmp(x, y) > 0
FGe(x, y) == Ordered(x, y) /\ FCmp(x, y) >= 0

\* Math.min
FMin(x, y) == IF ~Ordered(x, y) THEN FNaN ELSE IF FLt(y, x) THEN y ELSE x

IsInteger(x) == IsZero(x) \/ (IsRegular(x) /\ x.exp >= 0)

\* the integer part of x >= 0 (the conversion to unsigned long of a canvas
\* size; Infinity and NaN convert to 0)
FTrunc(x) ==
  IF x.man = <<>> \/ x.sign < 0 THEN 0
  ELSE IF x.exp >= 0 THEN BToInt(BShl(x.man, x.exp))
  ELSE BToInt(BShr(x.man, -x.exp))

\* x / 2
FHalf(x) == IF x.man = <<>> THEN x ELSE [x EXCEPT !.exp = @ - 1]

(***************************************************************************)
(* The four revisions of the component kept in the repository.             *)
(***************************************************************************)
FirstBlur == 1      \* src/src/App.tsx, lines 1-148: blur(10px), stretched layers
HeicBlur  == 2      \* src/src/App.tsx, lines 150-469: HEIC + blurred composite
HeicPng   == 3      \* src/unnamed/part_000, lines 1-269: HEIC + transparent PNG
PlainBlur == 4      \* src/unnamed/part_000, lines 271-465: blurred composite

Variants == {FirstBlur, HeicBlur, HeicPng, PlainBlur}

\* the revisions whose processImage awaits convertHeicToJpeg and sets
\* isProcessing on entry
HasConversion(v) == v \in {HeicBlur, HeicPng}

\* the revisions that draw a blurred background under the foreground
HasBackground(v) == v \in {FirstBlur, HeicBlur, PlainBlur}

\* the revisions with a noBackgroundImage state slot
HasNoBackgroundSlot(v) == v \in {HeicBlur, PlainBlur}

maxWidth == 800
maxHeight == 800

\* const scale = 1.05
scale == FDiv(FromInt(105), FromInt(100))

NoFilter == "none"

\* blurCtx.filter = ...
BlurFilter(v) ==
  IF v = FirstBlur THEN "blur(10px)" ELSE "blur(15px) brightness(0.8)"

\* the argument of toDataURL when the result is published
Encoding(v) == IF v = HeicPng THEN "image/png" ELSE "image/jpeg"

\* link.download in handleDownload
DownloadName(v) ==
  IF v = HeicPng THEN "processed-image.png" ELSE "processed-image.jpg"

(***************************************************************************)
(* Resize: let width = img.width, height = img.height;                     *)
(*   if (width > maxWidth || height > maxHeight) {                         *)
(*     ratio = Math.min(maxWidth / width, maxHeight / height);             *)
(*     width *= ratio; height *= ratio }                                   *)
(* for natural sizes natW, natH >= 0: with a zero size and the other above *)
(* the bound, the quotient by zero is Infinity and Math.min returns the    *)
(* other quotient.                                                         *)
(***************************************************************************)
Ratio(natW, natH) ==
  FMin(FDiv(FromInt(maxWidth), FromInt(natW)),
       FDiv(FromInt(maxHeight), FromInt(natH)))

Scaled(natW, natH, ratio) ==
  [width  |-> FMul(FromInt(natW), ratio), height |-> FMul(FromInt(natH), ratio)]

\* mutant: the guard of the resize is missing
ResizeStepUnguarded(natW, natH) == Scaled(natW, natH, Ratio(natW, natH))

ResizeStep(natW, natH) ==
  IF natW > maxWidth \/ natH > maxHeight
  THEN Scaled(natW, natH, Ratio(natW, natH))
  ELSE [width |-> FromInt(natW), height |-> FromInt(natH)]

\* canvas.width = width, canvas.height = height: the attributes are unsigned
\* long, the assignment keeps the integer part
CanvasSize(width, height) == [w |-> FTrunc(width), h |-> FTrunc(height)]

Rect(x, y, w, h) == [x |-> x, y |-> y, w |-> w, h |-> h]

\* offset = (size - drawn) / 2
Centered(size, drawn) == FHalf(FSub(size, drawn))

(***************************************************************************)
(* The rectangle of blurCtx.drawImage(blurImg, ...) in blurImg.onload.     *)
(***************************************************************************)
ScaledRect(width, height, scaledWidth, scaledHeight) ==
  Rect(Centered(width, scaledWidth), Centered(height, scaledHeight),
       scaledWidth, scaledHeight)

BackgroundRect(v, width, height) ==
  IF v = FirstBlur
  THEN Rect(FZero, FZero, width, height)
  ELSE ScaledRect(width, height, FMul(width, scale), FMul(height, scale))

(***************************************************************************)
(* The rectangle of the foreground drawImage in noBackImg.onload           *)
(* (foregroundImg.onload in the PNG revision), for a foreground image of   *)
(* size fgW, fgH >= 0 (a zero size makes imgAspect 0, Infinity or NaN).    *)
(***************************************************************************)
\* the draw call, given drawWidth and drawHeight
Placement(v, width, height, wider, drawWidth, drawHeight) ==
  IF v = FirstBlur
  THEN Rect(FZero, FZero, width, height)
  ELSE IF v = HeicPng
  THEN Rect(Centered(width, drawWidth), Centered(height, drawHeight),
            drawWidth, drawHeight)
  ELSE Rect(IF wider THEN FZero ELSE Centered(width, drawWidth),
            IF wider THEN Centered(height, drawHeight) ELSE FZero,
            drawWidth, drawHeight)

\* if (imgAspect > canvasAspect) drawHeight = width / imgAspect
\* else drawWidth = height * imgAspect
Fit(v, width, height, imgAspect, wider) ==
  Placement(v, width, height, wider,
            IF wider THEN width ELSE FMul(height, imgAspect),
            IF wider THEN FDiv(width, imgAspect) ELSE height)

\* mutant: the comparison of the aspect ratios is inverted
CompareInverted(v, width, height, imgAspect, canvasAspect) ==
  Fit(v, width, height, imgAspect, FLt(imgAspect, canvasAspect))

Compare(v, width, height, imgAspect, canvasAspect) ==
  Fit(v, width, height, imgAspect, FGt(imgAspect, canvasAspect))

ForegroundRect(v, fgW, fgH, width, height) ==
  Compare(v, width, height, FDiv(FromInt(fgW), FromInt(fgH)), FDiv(width, height))

(***************************************************************************)
(* Bounds and inputs of the model.                                         *)
(***************************************************************************)
\* uploads the user makes while earlier ones may still be in flight
MaxRequests == 2

Size(w, h) == [w |-> w, h |-> h]

\* natural sizes of the uploaded images, and sizes of the foreground image the
\* segmentation returns, when uploads overlap
OverlapSizes   == {Size(600, 600)}
OverlapCutouts == {Size(200, 100)}

\* the same for a single upload
SingleSizes ==
  {Size(400, 300), Size(600, 600), Size(800, 800), Size(300, 800),
   Size(1600, 1200), Size(1200, 1600), Size(801, 801), Size(1000, 801),
   Size(1060, 500), Size(1078, 1078), Size(640, 1093), Size(2000, 900),
   Size(0, 0), Size(0, 1000), Size(1000, 0)}
SingleCutouts ==
  {Size(200, 100), Size(100, 200), Size(600, 600), Size(800, 600),
   Size(800, 640), Size(333, 500), Size(0, 100), Size(100, 0), Size(0, 0)}

VARIABLES
  variant,            \* which revision of the component runs
  env,                \* what the user and the collaborators may supply
  nsub,               \* uploads so far; request i is the i-th upload
  req,                \* per request: the closure state of its callback chain
  originalImage,      \* useState slots: 0 is null, i > 0 the value request i set
  noBackgroundImage,
  processedImage,
  isProcessing,
  containers,         \* requests whose container div is attached to document.body
  segCalls,           \* calls of removeBackground so far
  finished,           \* requests in the order their last callback ran
  downloaded          \* the last download the page triggered

vars == <<variant, env, nsub, req, originalImage, noBackgroundImage,
          processedImage, isProcessing, containers, segCalls, finished,
          downloaded>>

Requests == 1..MaxRequests

\* the size of an image that has not loaded, of a canvas not yet created
NoSize == Size(-1, -1)
NoCtx  == [filter |-> NoFilter, ops |-> <<>>]

NoDownload == [name |-> "none", href |-> "none"]

\* a request before its upload
Idle ==
  [pc |-> "idle", heic |-> FALSE, empty |-> FALSE, nat |-> NoSize,
   width |-> FZero, height |-> FZero, canvas |-> NoSize,
   ctx |-> NoCtx, layers |-> <<>>, fg |-> NoSize, stages |-> <<>>,
   segInput |-> "none",
   published |-> "none", log |-> <<>>, uncaught |-> FALSE]

InitState ==
  /\ variant \in Variants
  /\ nsub = 0
  /\ req = [i \in Requests |-> Idle]
  /\ originalImage = 0
  /\ noBackgroundImage = 0
  /\ processedImage = 0
  /\ isProcessing = FALSE
  /\ containers = {}
  /\ segCalls = 0
  /\ finished = <<>>
  /\ downloaded = NoDownload

\* several uploads that may overlap
InitOverlap ==
  /\ InitState
  /\ env = [uploads |-> MaxRequests, sizes |-> OverlapSizes,
            cutouts |-> OverlapCutouts]

\* one upload, of any of the sizes
InitSingle ==
  /\ InitState
  /\ env = [uploads |-> 1, sizes |-> SingleSizes, cutouts |-> SingleCutouts]

Init == InitOverlap \/ InitSingle

Step(i, pc, stage) ==
  [req[i] EXCEPT !.pc = pc, !.stages = Append(@, stage)]

(***************************************************************************)
(* The catch blocks a rejection passes through, innermost first, when it   *)
(* is raised at position pc of the callback chain:                         *)
(*  - "converting": heic2any rejects inside the try of convertHeicToJpeg,  *)
(*    whose catch rethrows into the try of processImage                    *)
(*  - "segmenting": removeBackground rejects inside the try of img.onload  *)
(***************************************************************************)
\* mutant: the awaits are not inside any try block
TryBlocksNone(v, pc) == <<>>

TryBlocks(v, pc) ==
  IF pc = "converting" /\ HasConversion(v)
  THEN <<"convertHeicToJpeg", "processImage">>
  ELSE IF pc = "segmenting" THEN <<"img.onload">>
  ELSE <<>>

\* the first argument of console.error in a catch block
Message(v, block) ==
  IF block = "convertHeicToJpeg" THEN "Error converting HEIC/HEIF:"
  ELSE IF block = "img.onload" /\ v = HeicPng THEN "Error removing background:"
  ELSE "Error processing image:"

Messages(v, blocks) == [k \in DOMAIN blocks |-> Message(v, blocks[k])]

\* request i after a rejection raised at its position: logged by each catch
\* block and failed, or uncaught when there is none
Thrown(i, blocks) ==
  IF blocks = <<>>
  THEN [req[i] EXCEPT !.pc = "stuck", !.uncaught = TRUE,
                      !.stages = Append(@, "Uncaught")]
  ELSE [req[i] EXCEPT !.pc = "failed", !.log = @ \o Messages(variant, blocks),
                      !.stages = Append(@, "Failed")]

(***************************************************************************)
(* handleImageUpload / handleDrop -> processImage(file), up to the first   *)
(* suspension: the await of convertHeicToJpeg for a .heic/.heif name in    *)
(* the revisions that convert, reader.readAsDataURL otherwise.  The file   *)
(* may have no bytes.                                                      *)
(***************************************************************************)
Submit(heic, empty) ==
  /\ nsub < env.uploads
  /\ heic => HasConversion(variant)
  /\ nsub' = nsub + 1
  /\ req' = [req EXCEPT ![nsub + 1] =
               [Idle EXCEPT !.pc = IF heic THEN "converting" ELSE "reading",
                            !.heic = heic,
                            !.empty = empty,
                            !.stages = <<"Submitted">>]]
  /\ isProcessing' = IF HasConversion(variant) THEN TRUE ELSE isProcessing
  /\ UNCHANGED <<downloaded, variant, env, originalImage, noBackgroundImage,
                 processedImage, containers, segCalls, finished>>

\* heic2any resolves (it has bytes to convert): convertHeicToJpeg returns,
\* reader.readAsDataURL
ConvertResolve(i) ==
  /\ req[i].pc = "converting"
  /\ ~req[i].empty
  /\ req' = [req EXCEPT ![i] = Step(i, "reading", "Converted")]
  /\ UNCHANGED <<downloaded, variant, env, nsub, originalImage, noBackgroundImage,
                 processedImage, isProcessing, containers, segCalls, finished>>

\* mutant: the outer catch does not reset isProcessing
ConvertRejectSilent(i) ==
  /\ req[i].pc = "converting"
  /\ req' = [req EXCEPT ![i] = Thrown(i, TryBlocks(variant, req[i].pc))]
  /\ finished' = Append(finished, i)
  /\ UNCHANGED <<downloaded, variant, env, nsub, originalImage, noBackgroundImage,
                 processedImage, isProcessing, containers, segCalls>>

\* heic2any rejects: convertHeicToJpeg logs and rethrows, the outer catch of
\* processImage logs and resets isProcessing
ConvertReject(i) ==
  /\ req[i].pc = "converting"
  /\ req' = [req EXCEPT ![i] = Thrown(i, TryBlocks(variant, req[i].pc))]
  /\ isProcessing' = IF TryBlocks(variant, req[i].pc) = <<>>
                     THEN isProcessing ELSE FALSE
  /\ finished' = Append(finished, i)
  /\ UNCHANGED <<downloaded, variant, env, nsub, originalImage, noBackgroundImage,
                 processedImage, containers, segCalls>>

\* the reader's error event: no handler is registered, the chain ends
ReaderOnerror(i) ==
  /\ req[i].pc = "reading"
  /\ req' = [req EXCEPT ![i] = Step(i, "stuck", "ReadError")]
  /\ UNCHANGED <<downloaded, variant, env, nsub, originalImage, noBackgroundImage,
                 processedImage, isProcessing, containers, segCalls, finished>>

\* mutant: reader.onload calls removeBackground on the data URL at once, without
\* waiting for the image to load and be resized
ReaderOnloadSegmenting(i) ==
  /\ req[i].pc = "reading"
  /\ req' = [req EXCEPT ![i] =
               [@ EXCEPT !.pc = "segmenting",
                         !.segInput = "original",
                         !.stages = @ \o <<"Decoding", "SegmentationPending">>]]
  /\ originalImage' = IF variant = HeicPng THEN i ELSE originalImage
  /\ segCalls' = segCalls + 1
  /\ UNCHANGED <<downloaded, variant, env, nsub, noBackgroundImage, processedImage,
                 isProcessing, containers, finished>>

\* reader.onload: (PNG revision: setOriginalImage(imageUrl)), img.src = result
ReaderOnload(i) ==
  /\ req[i].pc = "reading"
  /\ req' = [req EXCEPT ![i] = Step(i, "decoding", "Decoding")]
  /\ originalImage' = IF variant = HeicPng THEN i ELSE originalImage
  /\ UNCHANGED <<downloaded, variant, env, nsub, noBackgroundImage, processedImage,
                 isProcessing, containers, segCalls, finished>>

\* the image's error event: no handler is registered, the chain ends
ImgOnerror(i) ==
  /\ req[i].pc = "decoding"
  /\ req' = [req EXCEPT ![i] = Step(i, "stuck", "DecodeError")]
  /\ UNCHANGED <<downloaded, variant, env, nsub, originalImage, noBackgroundImage,
                 processedImage, isProcessing, containers, segCalls, finished>>

(***************************************************************************)
(* img.onload up to the await of removeBackground (a file without bytes    *)
(* does not decode): resize, then                                          *)
(*  - blur revisions: draw onto a canvas of the target size, toDataURL,    *)
(*    setOriginalImage(resizedImage), setIsProcessing(true),               *)
(*    removeBackground(resizedImage)                                       *)
(*  - PNG revision: append a container div of the target size,             *)
(*    removeBackground(e.target.result)                                    *)
(***************************************************************************)
ImgOnload(i, size) ==
  /\ req[i].pc = "decoding"
  /\ ~req[i].empty
  /\ LET dim == ResizeStep(size.w, size.h)
     IN  req' = [req EXCEPT ![i] =
                   [@ EXCEPT !.pc = "segmenting",
                             !.nat = size,
                             !.width = dim.width,
                             !.height = dim.height,
                             !.segInput = IF variant = HeicPng
                                          THEN "original" ELSE "resized",
                             !.stages = @ \o <<"Decoded", "Resized",
                                               "SegmentationPending">>]]
  /\ originalImage' = IF variant = HeicPng THEN originalImage ELSE i
  /\ isProcessing' = IF variant = HeicPng THEN isProcessing ELSE TRUE
  /\ containers' = IF variant = HeicPng THEN containers \cup {i} ELSE containers
  /\ segCalls' = segCalls + 1
  /\ UNCHANGED <<downloaded, variant, env, nsub, noBackgroundImage, processedImage, finished>>

(***************************************************************************)
(* removeBackground resolves.                                              *)
(*  - blur revisions: (setNoBackgroundImage(url)), create blurCanvas; with *)
(*    a 2d context set its filter and load blurImg; without one nothing    *)
(*    more happens                                                         *)
(*  - PNG revision: load foregroundImg                                     *)
(***************************************************************************)
SegResolve(i, ctxOk) ==
  /\ req[i].pc = "segmenting"
  /\ ctxOk \/ HasBackground(variant)
  /\ req' = [req EXCEPT ![i] =
               IF ~HasBackground(variant)
               THEN [@ EXCEPT !.pc = "fgLoading",
                              !.stages = @ \o <<"Segmented", "Compositing">>]
               ELSE IF ctxOk
               THEN [@ EXCEPT !.pc = "bgLoading",
                              !.canvas = CanvasSize(req[i].width, req[i].height),
                              !.ctx = [filter |-> BlurFilter(variant), ops |-> <<>>],
                              !.stages = @ \o <<"Segmented", "Compositing">>]
               ELSE [@ EXCEPT !.pc = "stuck",
                              !.canvas = CanvasSize(req[i].width, req[i].height),
                              !.stages = @ \o <<"Segmented", "NoContext">>]]
  /\ noBackgroundImage' =
       IF HasNoBackgroundSlot(variant) THEN i ELSE noBackgroundImage
  /\ UNCHANGED <<downloaded, variant, env, nsub, originalImage, processedImage,
                 isProcessing, containers, segCalls, finished>>

\* mutant: the catch block calls removeBackground once more
SegRejectRetrying(i) ==
  /\ req[i].pc = "segmenting"
  /\ req' = [req EXCEPT ![i] =
               [@ EXCEPT !.log = @ \o Messages(variant, TryBlocks(variant, req[i].pc)),
                         !.stages = @ \o <<"Failed", "SegmentationPending">>]]
  /\ segCalls' = segCalls + 1
  /\ UNCHANGED <<downloaded, variant, env, nsub, originalImage, noBackgroundImage,
                 processedImage, isProcessing, containers, finished>>

\* removeBackground rejects: the inner catch logs, resets isProcessing and, in
\* the PNG revision, removes the container
SegReject(i) ==
  /\ req[i].pc = "segmenting"
  /\ req' = [req EXCEPT ![i] = Thrown(i, TryBlocks(variant, req[i].pc))]
  /\ isProcessing' = IF TryBlocks(variant, req[i].pc) = <<>>
                     THEN isProcessing ELSE FALSE
  /\ containers' = IF TryBlocks(variant, req[i].pc) = <<>>
                   THEN containers ELSE containers \ {i}
  /\ finished' = Append(finished, i)
  /\ UNCHANGED <<downloaded, variant, env, nsub, originalImage, noBackgroundImage,
                 processedImage, segCalls>>

\* mutant: the context keeps the filter of the composition before it whenever
\* a composite has been published
DrawOpLeftover(layer, filter, rect) ==
  [layer |-> layer,
   filter |-> IF processedImage # 0 THEN BlurFilter(variant) ELSE filter,
   rect |-> rect]

DrawOp(layer, filter, rect) == [layer |-> layer, filter |-> filter, rect |-> rect]

\* canvas.toDataURL(type): a canvas without pixels gives "data:,"; the value
\* is the media type of the URL otherwise
ToDataURL(canvas, type) ==
  IF canvas.w = 0 \/ canvas.h = 0 THEN "data:," ELSE type

\* resizedImage is the data URL of a canvas; "data:," is no image and does
\* not load
Loadable(canvas) == ToDataURL(canvas, "image/jpeg") # "data:,"

Finite(x) == IsZero(x) \/ IsRegular(x)

\* whether drawImage(image, dx, dy, dWidth, dHeight) paints: an image of zero
\* natural width or height is not usable and an argument that is not finite
\* makes the call return without drawing; so does an empty destination
Paints(src, rect) ==
  /\ src.w > 0 /\ src.h > 0
  /\ Finite(rect.x) /\ Finite(rect.y) /\ Finite(rect.w) /\ Finite(rect.h)
  /\ ~IsZero(rect.w) /\ ~IsZero(rect.h)

\* the layers of a canvas after a drawImage call
Painted(layers, layer, src, rect) ==
  IF Paints(src, rect) THEN Append(layers, layer) ELSE layers

\* blurImg.onload: draw the background, (reset the filter), load noBackImg
BlurImgOnload(i) ==
  /\ req[i].pc = "bgLoading"
  /\ Loadable(req[i].canvas)
  /\ req' = [req EXCEPT ![i] =
               [@ EXCEPT !.pc = "fgLoading",
                         !.ctx = [filter |-> IF variant = FirstBlur
                                             THEN @.filter ELSE NoFilter,
                                  ops |-> Append(@.ops,
                                     DrawOp("background", @.filter,
                                            BackgroundRect(variant, req[i].width,
                                                           req[i].height)))],
                         !.layers = Painted(@, "background", req[i].canvas,
                                            BackgroundRect(variant, req[i].width,
                                                           req[i].height)),
                         !.stages = Append(@, "BackgroundDrawn")]]
  /\ UNCHANGED <<downloaded, variant, env, nsub, originalImage, noBackgroundImage,
                 processedImage, isProcessing, containers, segCalls, finished>>

\* the error event of blurImg: no handler is registered, the chain ends
BlurImgOnerror(i) ==
  /\ req[i].pc = "bgLoading"
  /\ req' = [req EXCEPT ![i] = Step(i, "stuck", "BackgroundError")]
  /\ UNCHANGED <<downloaded, variant, env, nsub, originalImage, noBackgroundImage,
                 processedImage, isProcessing, containers, segCalls, finished>>

(***************************************************************************)
(* noBackImg.onload / foregroundImg.onload: place and draw the foreground, *)
(* setProcessedImage(toDataURL), setIsProcessing(false).  The PNG revision *)
(* creates its canvas here and publishes only if it got a 2d context.      *)
(***************************************************************************)
NoBackImgOnload(i, fg, ctxOk) ==
  /\ req[i].pc = "fgLoading"
  /\ ctxOk \/ variant = HeicPng
  /\ LET r    == req[i]
         rect == ForegroundRect(variant, fg.w, fg.h, r.width, r.height)
         ctx  == IF variant = HeicPng THEN NoCtx ELSE r.ctx
     IN  req' = [req EXCEPT ![i] =
                   IF ctxOk
                   THEN [@ EXCEPT !.pc = "done",
                                  !.fg = fg,
                                  !.canvas = CanvasSize(r.width, r.height),
                                  !.ctx = [ctx EXCEPT !.ops = Append(@,
                                             DrawOp("foreground", ctx.filter, rect))],
                                  !.layers = Painted(@, "foreground", fg, rect),
                                  !.published =
                                     ToDataURL(CanvasSize(r.width, r.height),
                                               Encoding(variant)),
                                  !.stages = @ \o <<"ForegroundDrawn", "Done">>]
                   ELSE [@ EXCEPT !.pc = "failed",
                                  !.fg = fg,
                                  !.canvas = CanvasSize(r.width, r.height),
                                  !.stages = @ \o <<"NoContext", "Failed">>]]
  /\ processedImage' = IF ctxOk THEN i ELSE processedImage
  /\ isProcessing' = FALSE
  /\ finished' = Append(finished, i)
  /\ UNCHANGED <<downloaded, variant, env, nsub, originalImage, noBackgroundImage,
                 containers, segCalls>>

\* the error event of noBackImg / foregroundImg: no handler is registered, the
\* chain ends
NoBackImgOnerror(i) ==
  /\ req[i].pc = "fgLoading"
  /\ req' = [req EXCEPT ![i] = Step(i, "stuck", "ForegroundError")]
  /\ UNCHANGED <<downloaded, variant, env, nsub, originalImage, noBackgroundImage,
                 processedImage, isProcessing, containers, segCalls, finished>>

\* handleDownload: if (processedImage) { link.href = processedImage;
\* link.download = ...; link.click() }
HandleDownload ==
  /\ downloaded' = IF processedImage # 0
                   THEN [name |-> DownloadName(variant),
                         href |-> req[processedImage].published]
                   ELSE downloaded
  /\ UNCHANGED <<variant, env, nsub, req, originalImage, noBackgroundImage,
                 processedImage, isProcessing, containers, segCalls, finished>>

\* the callbacks of request i
Callback(i) ==
  \/ ConvertResolve(i)
  \/ ConvertReject(i)
  \/ ReaderOnload(i)
  \/ ReaderOnerror(i)
  \/ ImgOnerror(i)
  \/ \E size \in env.sizes : ImgOnload(i, size)
  \/ \E ctxOk \in BOOLEAN : SegResolve(i, ctxOk)
  \/ SegReject(i)
  \/ BlurImgOnload(i)
  \/ BlurImgOnerror(i)
  \/ \E fg \in env.cutouts : \E ctxOk \in BOOLEAN : NoBackImgOnload(i, fg, ctxOk)
  \/ NoBackImgOnerror(i)

Next ==
  \/ \E heic, empty \in BOOLEAN : Submit(heic, empty)
  \/ \E i \in Requests : Callback(i)
  \/ HandleDownload

Spec == Init /\ [][Next]_vars

\* the event loop runs every callback whose event has been delivered: each
\* asynchronous step eventually succeeds or reports failure
FairSpec == Spec /\ \A i \in Requests : WF_vars(Callback(i))

(***************************************************************************)
(* Vocabulary of the properties.                                           *)
(***************************************************************************)
Submitted(i) == i <= nsub

\* request i has run its resize step
Resized(i) == req[i].nat # NoSize

Positive(size) == size.w > 0 /\ size.h > 0

\* request i has drawn its foreground and published
Composed(i) == req[i].pc = "done"

ForegroundOp(i) == req[i].ctx.ops[Len(req[i].ctx.ops)]

BackgroundDrawn(i) ==
  /\ Len(req[i].ctx.ops) >= 1
  /\ req[i].ctx.ops[1].layer = "background"

BackgroundOp(i) == req[i].ctx.ops[1]

\* the position of request i in the order of completion
Position(i) == CHOOSE k \in 1..Len(finished) : finished[k] = i

\* x + y, not rounded
FSumExact(x, y) ==
  LET e  == IF x.exp < y.exp THEN x.exp ELSE y.exp
      mx == BShl(x.man, x.exp - e)
      my == BShl(y.man, y.exp - e)
  IN  IF x.man = <<>> THEN y
      ELSE IF y.man = <<>> THEN x
      ELSE IF x.sign = y.sign THEN FCanon(x.sign, BAdd(mx, my), e)
      ELSE IF BCmp(mx, my) >= 0 THEN FCanon(x.sign, BSub(mx, my), e)
      ELSE FCanon(y.sign, BSub(my, mx), e)

FAbs(x) == [x EXCEPT !.sign = 1]

\* the rounding tolerance of an aspect ratio: 2^-40, relative
Tolerance == [sign |-> 1, man |-> <<1>>, exp |-> -40]

\* width / height = natW / natH within the tolerance
SameAspectWithin(width, height, natW, natH) ==
  FLe(FAbs(FSub(FMul(width, FromInt(natH)), FMul(height, FromInt(natW)))),
      FMul(Tolerance, FMul(height, FromInt(natW))))

(***************************************************************************)
(* C1.  Supersession: when request j is uploaded after request i and       *)
(* before i has completed, and the final composite callback of i runs      *)
(* after that of j, the published processedImage once both have completed  *)
(* is that of j, not that of i.                                            *)
(***************************************************************************)
C1_Supersession ==
  \A i, j \in Requests :
    ( /\ i < j
      /\ Composed(i) /\ Composed(j)
      /\ Position(i) > Position(j)
      /\ \A k \in Requests \ {i, j} : ~Composed(k) )
    => processedImage = j

(***************************************************************************)
(* C2.  Every write to processedImage, and every write to                  *)
(* noBackgroundImage, is made by the most recently uploaded request: a     *)
(* superseded request never writes these slots.                            *)
(***************************************************************************)
C2_OnlyLatestWrites ==
  [][ /\ processedImage' # processedImage => processedImage' = nsub'
      /\ noBackgroundImage' # noBackgroundImage => noBackgroundImage' = nsub' ]_vars

(***************************************************************************)
(* C3.  An image whose natural width and height are both at most 800 keeps *)
(* its natural dimensions in the resize step (400x300 stays 400x300).      *)
(***************************************************************************)
C3_NoUpscale ==
  \A i \in Requests :
    (Resized(i) /\ req[i].nat.w <= 800 /\ req[i].nat.h <= 800)
    => /\ req[i].width = FromInt(req[i].nat.w)
       /\ req[i].height = FromInt(req[i].nat.h)

C3_Witness ==
  \E i \in Requests :
    /\ Resized(i)
    /\ req[i].nat = Size(400, 300)
    /\ req[i].width = FromInt(400)
    /\ req[i].height = FromInt(300)

(***************************************************************************)
(* C4.  An image with positive natural dimensions of which one exceeds 800 *)
(* is resized to (w, h) with w <= 800, h <= 800, w <= naturalWidth,        *)
(* h <= naturalHeight, w/h = naturalWidth/naturalHeight within rounding    *)
(* tolerance, and w = 800 or h = 800 (1600x1200 gives 800x600).            *)
(***************************************************************************)
C4_DownscaleWithinBox ==
  \A i \in Requests :
    (Resized(i) /\ Positive(req[i].nat)
       /\ (req[i].nat.w > 800 \/ req[i].nat.h > 800))
    => /\ FLe(req[i].width, FromInt(800))
       /\ FLe(req[i].height, FromInt(800))
       /\ FLe(req[i].width, FromInt(req[i].nat.w))
       /\ FLe(req[i].height, FromInt(req[i].nat.h))
       /\ SameAspectWithin(req[i].width, req[i].height, req[i].nat.w, req[i].nat.h)
       /\ (req[i].width = FromInt(800) \/ req[i].height = FromInt(800))

(***************************************************************************)
(* C5.  For positive integer natural dimensions the width and height the   *)
(* resize step computes, which size the canvas and the draws, are          *)
(* integers.                                                               *)
(***************************************************************************)
C5_IntegralDimensions ==
  \A i \in Requests :
    (Resized(i) /\ Positive(req[i].nat))
    => IsInteger(req[i].width) /\ IsInteger(req[i].height)

(***************************************************************************)
(* C6.  Contain fit, in every revision that overlays the foreground: the   *)
(* rectangle the foreground is drawn at lies inside the destination canvas *)
(* and touches its left and right edges or its top and bottom edges, and   *)
(* both pairs only if foreground and canvas have the same aspect ratio.    *)
(***************************************************************************)
TouchesLeftRight(r, c) ==
  r.x = FZero /\ FCmp(FSumExact(r.x, r.w), FromInt(c.w)) = 0

TouchesTopBottom(r, c) ==
  r.y = FZero /\ FCmp(FSumExact(r.y, r.h), FromInt(c.h)) = 0

Inside(r, c) ==
  /\ FGe(r.x, FZero)
  /\ FGe(r.y, FZero)
  /\ FLe(FSumExact(r.x, r.w), FromInt(c.w))
  /\ FLe(FSumExact(r.y, r.h), FromInt(c.h))

C6_ContainFit ==
  \A i \in Requests :
    (Composed(i) /\ Positive(req[i].fg) /\ Positive(req[i].canvas))
    => LET r == ForegroundOp(i).rect
           c == req[i].canvas
       IN  /\ Inside(r, c)
           /\ TouchesLeftRight(r, c) \/ TouchesTopBottom(r, c)
           /\ (TouchesLeftRight(r, c) /\ TouchesTopBottom(r, c))
                => req[i].fg.w * c.h = req[i].fg.h * c.w

(***************************************************************************)
(* C7.  The foreground is placed by the reference rule: with aspectRatio = *)
(* foreground.width / foreground.height, if aspectRatio > width / height   *)
(* it is drawn at full width, drawHeight = width / aspectRatio, offsetX =  *)
(* 0, offsetY = (height - drawHeight) / 2; otherwise at full height,       *)
(* drawWidth = height * aspectRatio, offsetX = (width - drawWidth) / 2,    *)
(* offsetY = 0.  A 2:1 foreground over a 1:1 canvas is drawn at full       *)
(* width, half the height, vertically centered.  (The revisions that       *)
(* compute a placement; the first revision is the subject of C6.)          *)
(***************************************************************************)
ReferencePlacement(fgW, fgH, width, height) ==
  LET aspectRatio == FDiv(FromInt(fgW), FromInt(fgH))
      drawHeight  == FDiv(width, aspectRatio)
      drawWidth   == FMul(height, aspectRatio)
  IN  IF FGt(aspectRatio, FDiv(width, height))
      THEN Rect(FZero, FHalf(FSub(height, drawHeight)), width, drawHeight)
      ELSE Rect(FHalf(FSub(width, drawWidth)), FZero, drawWidth, height)

C8_FilterReset ==
  \A i \in Requests :
    Composed(i) => ForegroundOp(i).filter = NoFilter

(***************************************************************************)
(* C9.  In every revision that draws a background, it is drawn magnified   *)
(* by 1.05 at ((width - scaledWidth)/2, (height - scaledHeight)/2): both   *)
(* offsets are negative and the rectangle, centered on the canvas, covers  *)
(* the canvas.                                                             *)
(***************************************************************************)
C9_BackgroundGeometry ==
  \A i \in Requests :
    (BackgroundDrawn(i) /\ FGt(req[i].width, FZero) /\ FGt(req[i].height, FZero))
    => LET r  == BackgroundOp(i).rect
           w  == req[i].width
           h  == req[i].height
           sw == FMul(w, FDiv(FromInt(105), FromInt(100)))
           sh == FMul(h, FDiv(FromInt(105), FromInt(100)))
       IN  /\ r = Rect(FHalf(FSub(w, sw)), FHalf(FSub(h, sh)), sw, sh)
           /\ FLt(r.x, FZero) /\ FLt(r.y, FZero)
           /\ FGe(FSumExact(r.x, r.w), w)
           /\ FGe(FSumExact(r.y, r.h), h)

(***************************************************************************)
(* C10. Within a request the stages run in the order Submitted, Decoding,  *)
(* Resizing, SegmentationPending, Compositing, Done or Failed: the resize  *)
(* follows the decode, the segmentation call follows the resize,           *)
(* compositing follows the resolution of the segmentation call, and a      *)
(* request that is done has passed through every stage.                    *)
(***************************************************************************)
StageOrder ==
  <<"Submitted", "Decoding", "Decoded", "Resized", "SegmentationPending",
    "Segmented", "Compositing", "Done">>

Has(s, stage) == \E k \in 1..Len(s) : s[k] = stage

\* stage a occurs in s, and before every occurrence of stage b
Before(s, a, b) ==
  \A k \in 1..Len(s) : s[k] = b => \E m \in 1..(k - 1) : s[m] = a

Terminal(i) == req[i].pc \in {"done", "failed"}

InFlight(i) == req[i].pc \notin {"idle", "done", "failed"}

C11_Termination ==
  /\ \A i \in Requests : Submitted(i) ~> Terminal(i)
  /\ [](nsub > 0 => <>(~isProcessing /\ \A i \in Requests : ~InFlight(i)))

(***************************************************************************)
(* C12. An upload without bytes fails with an error for that request and   *)
(* leaves the output state unchanged: the request writes none of           *)
(* originalImage, noBackgroundImage and processedImage.                    *)
(***************************************************************************)
Writes(i) == originalImage = i \/ noBackgroundImage = i \/ processedImage = i

C12_ZeroByteInput ==
  \A i \in Requests :
    (req[i].empty /\ Has(req[i].stages, "DecodeError"))
    => (req[i].pc = "failed" /\ ~Writes(i))

(***************************************************************************)
(* C13. A request that has failed leaves none of its intermediate outputs  *)
(* visible: after it failed the three slots are all cleared or none of     *)
(* them holds a value the failed request wrote.                            *)
(***************************************************************************)
C13_NoPartialState ==
  \A i \in Requests :
    req[i].pc = "failed"
    => \/ ~Writes(i)
       \/ originalImage = 0 /\ noBackgroundImage = 0 /\ processedImage = 0

(***************************************************************************)
(* C14. Whenever no request is in flight, no container a request appended  *)
(* to the document is still attached, after a success as after a failure.  *)
(***************************************************************************)
C14_ContainersReleased ==
  (\A i \in Requests : ~InFlight(i)) => containers = {}

(***************************************************************************)
(* C15. A decoded image of zero natural width or height makes the resize   *)
(* step fail the request instead of computing target dimensions: no        *)
(* quotient by zero is formed and nothing is handed to the segmentation.   *)
(***************************************************************************)
C15_ZeroDimension ==
  \A i \in Requests :
    (Has(req[i].stages, "Decoded") /\ (req[i].nat.w = 0 \/ req[i].nat.h = 0))
    => /\ req[i].pc = "failed"
       /\ ~Has(req[i].stages, "Resized")
       /\ req[i].segInput = "none"

(***************************************************************************)
(* C16. For a .heic/.heif file the conversion comes before any read or     *)
(* decode; when it fails the request fails with the conversion error, no   *)
(* read, decode, segmentation or compositing is started for it, the step   *)
(* leaves originalImage and processedImage unchanged and resets            *)
(* isProcessing to false.                                                  *)
(***************************************************************************)
ConversionFailed(i) ==
  /\ req[i].heic
  /\ Has(req[i].stages, "Failed")
  /\ ~Has(req[i].stages, "Converted")

C16_ConversionFailure ==
  /\ [](\A i \in Requests :
          /\ req[i].heic => Before(req[i].stages, "Converted", "Decoding")
          /\ req[i].pc = "converting" => req[i].stages = <<"Submitted">>
          /\ ConversionFailed(i)
               => /\ req[i].stages = <<"Submitted", "Failed">>
                  /\ req[i].pc = "failed"
                  /\ req[i].log[1] = "Error converting HEIC/HEIF:"
                  /\ req[i].segInput = "none"
                  /\ req[i].ctx.ops = <<>>
                  /\ ~Writes(i))
  /\ [][\A i \in Requests :
          (req[i].pc = "converting" /\ req'[i].pc \notin {"converting", "reading"})
          => /\ req'[i].pc = "failed"
             /\ ~isProcessing'
             /\ originalImage' = originalImage
             /\ processedImage' = processedImage]_vars

C16_Witness ==
  \E i \in Requests : ConversionFailed(i) /\ ~isProcessing

(***************************************************************************)
(* C17. Compositing is deterministic: two requests composed from the same  *)
(* target dimensions and the same foreground have the same sequence of     *)
(* draw operations (layer, filter, offsets, sizes), the same canvas and    *)
(* the same encoding, whatever ran or was published before.                *)
(***************************************************************************)
SameInputs(i, j) ==
  /\ req[i].width = req[j].width
  /\ req[i].height = req[j].height
  /\ req[i].fg = req[j].fg

Count(s, stage) == Cardinality({k \in 1..Len(s) : s[k] = stage})

C18_NoRetry ==
  /\ segCalls <= nsub
  /\ \A i \in Requests :
       /\ Count(req[i].stages, "SegmentationPending") <= 1
       /\ Has(req[i].stages, "Failed")
            => /\ req[i].stages[Len(req[i].stages)] = "Failed"
               /\ req[i].pc = "failed"

C18_Witness ==
  \E i \in Requests :
    /\ req[i].pc = "failed"
    /\ Has(req[i].stages, "SegmentationPending")
    /\ ~Has(req[i].stages, "Segmented")
    /\ segCalls = nsub

(***************************************************************************)
(* C19. No failure escapes uncaught: a rejection of the HEIC conversion or *)
(* of the segmentation is caught inside the upload handler, logged, and    *)
(* the request fails; no rejection leaves a callback of the pipeline.      *)
(***************************************************************************)
Rejected(i) ==
  \/ ConversionFailed(i)
  \/ /\ Has(req[i].stages, "SegmentationPending")
     /\ ~Has(req[i].stages, "Segmented")
     /\ req[i].pc # "segmenting"

C19_NoUncaught ==
  \A i \in Requests :
    /\ ~req[i].uncaught
    /\ ~Has(req[i].stages, "Uncaught")
    /\ Rejected(i) => (req[i].pc = "failed" /\ req[i].log # <<>>)

C19_Witness ==
  \E i, j \in Requests :
    /\ ConversionFailed(i)
    /\ req[i].log = <<"Error converting HEIC/HEIF:", "Error processing image:">>
    /\ Rejected(j) /\ ~ConversionFailed(j)
    /\ Len(req[j].log) = 1

(***************************************************************************)
(* C20. In every revision the image handed to removeBackground is the      *)
(* output of the resize, a raster inside the 800x800 box, never the        *)
(* original input.                                                         *)
(***************************************************************************)
C20_SegmentationInput ==
  \A i \in Requests :
    req[i].segInput # "none" => req[i].segInput = "resized"

(***************************************************************************)
(* C21. Partial draws are never observable: in the revisions that draw a   *)
(* background, a request publishes only a canvas onto which the background *)
(* and then the foreground have been drawn, never one holding only the     *)
(* background or nothing.                                                  *)
(***************************************************************************)
Published(i) == req[i].published # "none"

C21_NoPartialDraw ==
  \A i \in Requests :
    (HasBackground(variant) /\ Published(i))
    => req[i].layers = <<"background", "foreground">>

(***************************************************************************)
(* C22. A foreground (or background) raster of zero width or height makes  *)
(* the compositor fail the request: no draw with such a source is issued   *)
(* and nothing is published for the request.                               *)
(***************************************************************************)
ZeroArea(size) == size # NoSize /\ (size.w = 0 \/ size.h = 0)

C22_ZeroAreaRaster ==
  \A i \in Requests :
    ZeroArea(req[i].fg)
    => /\ req[i].pc = "failed"
       /\ ~Published(i)
       /\ processedImage # i
       /\ \A k \in DOMAIN req[i].ctx.ops : req[i].ctx.ops[k].layer # "foreground"

(***************************************************************************)
(* C23. A download happens only when a result has been published, and its  *)
(* file name has the extension of the result's encoding: .png only for     *)
(* image/png, .jpg only for image/jpeg.                                    *)
(***************************************************************************)
C23_DownloadName ==
  downloaded # NoDownload
  => /\ processedImage # 0
     /\ downloaded.name = "processed-image.png" => downloaded.href = "image/png"
     /\ downloaded.name = "processed-image.jpg" => downloaded.href = "image/jpeg"

(***************************************************************************)
(* C24. While a submitted request has not reached Done or Failed,          *)
(* isProcessing is true; the end of an earlier request does not reset it   *)
(* while a later one is in flight.                                         *)
(***************************************************************************)
C24_ProcessingIndicator ==
  (\E i \in Requests : InFlight(i)) => isProcessing

(***************************************************************************)
(* C25. At rest after successful requests the displayed state is that of   *)
(* one request: when every submitted request is done and processedImage is *)
(* set, originalImage, noBackgroundImage (where the revision has it) and   *)
(* processedImage were written by the same request.                        *)
(***************************************************************************)
C25_ConsistentDisplay ==
  ((\A i \in Requests : Submitted(i) => Composed(i)) /\ processedImage # 0)
  => /\ originalImage = processedImage
     /\ HasNoBackgroundSlot(variant) => noBackgroundImage = processedImage

=============================================================================
